---- MODULE Spec2Model ----
(***************************************************************************)
(* BloxPy: a typed client over the Roblox REST API.                        *)
(*                                                                         *)
(* One invocation of a public operation is modelled in two steps, split at *)
(* the blocking requests.get call: Call runs the code before and including *)
(* requests.get (URL building with the pre-flight checks), Respond runs    *)
(* the code after it (status dispatch and JSON mapping).  Finish hands the *)
(* outcome to the caller, after which another invocation may start.        *)
(*                                                                         *)
(* Loading the Users module runs its module-level statement, which calls   *)
(* get_user and then avatar (LoadUsers, LoadAvatar); loading tells which   *)
(* of the two calls is running.  prior is a history variable: how the      *)
(* previous call ended.  No operation reads it.                            *)
(*                                                                         *)
(* Strings that the claims look into (URLs, cursors, keywords, rendered    *)
(* integers, messages) are sequences of lexemes: the delimiters ?, & and = *)
(* and every character of a caller-supplied cursor or keyword are lexemes  *)
(* of their own, a literal piece of a URL without delimiters is one        *)
(* lexeme.  Python's None is the empty tuple, a present value v is <<v>>.  *)
(***************************************************************************)
EXTENDS Integers, Sequences, FiniteSets, TLC

VARIABLES pc, op, args, requests, response, outcome, loading, prior

vars == <<pc, op, args, requests, response, outcome, loading, prior>>

----------------------------------------------------------------------------
(* Bounds of the model *)

MaxSubCode == 7
MaxItems == 2

----------------------------------------------------------------------------
(* Optional values *)

None == <<>>
Some(v) == <<v>>
IsNone(o) == o = <<>>
Val(o) == o[1]

----------------------------------------------------------------------------
(* Concatenation of a sequence of sequences *)

RECURSIVE Flatten(_)
Flatten(ss) == IF ss = <<>> THEN <<>> ELSE Head(ss) \o Flatten(Tail(ss))

(* f"{n}" for an int n: its decimal digits, with a leading minus sign *)
Digit(d) == CASE d = 0 -> "0" [] d = 1 -> "1" [] d = 2 -> "2" [] d = 3 -> "3"
              [] d = 4 -> "4" [] d = 5 -> "5" [] d = 6 -> "6" [] d = 7 -> "7"
              [] d = 8 -> "8" [] d = 9 -> "9"

RECURSIVE NatToStr(_)
NatToStr(n) == IF n < 10 THEN <<Digit(n)>>
               ELSE NatToStr(n \div 10) \o <<Digit(n % 10)>>

IntToStr(n) == IF n < 0 THEN <<"-">> \o NatToStr(0 - n) ELSE NatToStr(n)

----------------------------------------------------------------------------
(* Outcomes of an invocation *)

NoVal == [type |-> "", data |-> <<>>]
NoOutcome == [kind |-> "none", exc |-> "", msg |-> <<>>, val |-> NoVal]
Raise(exc, msg) == [kind |-> "raised", exc |-> exc, msg |-> msg, val |-> NoVal]
Return(v) == [kind |-> "returned", exc |-> "", msg |-> <<>>, val |-> v]
(* a function body that ends without a return statement returns None *)
ReturnNone == Return([type |-> "NoneType", data |-> <<>>])

(* ExceptionBase with the search-term base class under RobloxBadRequestError *)
ExceptionBase_SearchUnderBadRequest(cls) ==
    CASE cls \in {"RobloxNotFoundError", "RobloxBadRequestError", "RobloxUnauthorizedError",
                  "RobloxRateLimitError", "RobloxInternalServerError",
                  "RobloxUnexpectedError"} -> "RobloxApiError"
      [] cls = "RobloxSearchTermError" -> "RobloxBadRequestError"
      [] cls \in {"RobloxSearchTermInappropriateError", "RobloxSearchTermEmptyError",
                  "RobloxSearchTermLengthError", "RobloxSearchTermFilteredError",
                  "RobloxSearchTermTooShort"} -> "RobloxSearchTermError"
      [] OTHER -> "Exception"

(* The exception classes of _exceptions and their base classes.  The       *)
(* built-in and requests exceptions derive from no class of the library.   *)
ExceptionBase(cls) ==
    CASE cls \in {"RobloxNotFoundError", "RobloxBadRequestError", "RobloxUnauthorizedError",
                  "RobloxRateLimitError", "RobloxInternalServerError",
                  "RobloxUnexpectedError", "RobloxSearchTermError"} -> "RobloxApiError"
      [] cls \in {"RobloxSearchTermInappropriateError", "RobloxSearchTermEmptyError",
                  "RobloxSearchTermLengthError", "RobloxSearchTermFilteredError",
                  "RobloxSearchTermTooShort"} -> "RobloxSearchTermError"
      [] OTHER -> "Exception"

(* isinstance(e, base) for an exception e of class cls *)
RECURSIVE IsInstance(_, _)
IsInstance(cls, base) ==
    \/ cls = base
    \/ cls # "Exception" /\ IsInstance(ExceptionBase(cls), base)

----------------------------------------------------------------------------
(* Requests: URL building and the pre-flight checks *)

(* The state of a function before requests.get: the URL built so far, or   *)
(* the exception a pre-flight check raised.                                *)
Building(url) == [ok |-> TRUE, url |-> url, exc |-> "", msg |-> <<>>]
Rejected(exc, msg) == [ok |-> FALSE, url |-> <<>>, exc |-> exc, msg |-> msg]

limits == {10, 25, 50, 100}
Orders == {"Asc", "Desc"}

(* TruthyInt as the test "limit is not None" *)
TruthyInt_IsNotNone(o) == ~IsNone(o)

(* Python truth value of an Optional[int], an Optional[str] given as one   *)
(* lexeme, an Optional[str] given as a sequence of characters, and a bool  *)
TruthyInt(o) == ~IsNone(o) /\ Val(o) # 0
TruthyStr(o) == ~IsNone(o) /\ Val(o) # ""
TruthyChars(o) == ~IsNone(o) /\ Val(o) # <<>>

LimitMsgUsers == <<"Limit can only be 10, 25, 50 or 100">>
LimitMsgSearch == <<"Limit can only be 10, 25, 50, or 100">>
SortOrderMsg == <<"Sort order can only be either 'Asc' or 'Desc'">>

(* if limit: ... raise RobloxBadRequestError / base_url += f"&limit={limit}" *)
AppendLimit(b, limit, msg) ==
    IF ~b.ok \/ ~TruthyInt(limit) THEN b
    ELSE IF Val(limit) \notin limits THEN Rejected("RobloxBadRequestError", msg)
    ELSE [b EXCEPT !.url = @ \o <<"&", "limit", "=">> \o IntToStr(Val(limit))]

(* if sortOrder: ... raise RobloxBadRequestError / base_url += f"&sortOrder={sortOrder}" *)
AppendSortOrder(b, sortOrder) ==
    IF ~b.ok \/ ~TruthyStr(sortOrder) THEN b
    ELSE IF Val(sortOrder) \notin Orders
         THEN Rejected("RobloxBadRequestError", SortOrderMsg)
    ELSE [b EXCEPT !.url = @ \o <<"&", "sortOrder", "=", Val(sortOrder)>>]

(* AppendCursor with the cursor percent-encoded, as urllib.parse.quote does *)
QuoteChar(c) ==
    CASE c = " " -> <<"%", "2", "0">>
      [] c = "&" -> <<"%", "2", "6">>
      [] c = "=" -> <<"%", "3", "D">>
      [] c = "%" -> <<"%", "2", "5">>
      [] OTHER -> <<c>>
AppendCursorQuoted(b, cursor) ==
    IF ~b.ok \/ IsNone(cursor) \/ Val(cursor) = <<>> THEN b
    ELSE [b EXCEPT !.url = @ \o <<"&", "cursor", "=">>
                              \o Flatten([i \in 1..Len(Val(cursor)) |-> QuoteChar(Val(cursor)[i])])]

(* if cursor: base_url += f"&cursor={cursor}" *)
AppendCursor(b, cursor) ==
    IF ~b.ok \/ ~TruthyChars(cursor) THEN b
    ELSE [b EXCEPT !.url = @ \o <<"&", "cursor", "=">> \o Val(cursor)]

(* if prioritizeExactMatch: base_url += "&prioritizeExactMatch=true" *)
AppendPrioritize(b, prioritizeExactMatch) ==
    IF ~b.ok \/ ~prioritizeExactMatch THEN b
    ELSE [b EXCEPT !.url = @ \o <<"&", "prioritizeExactMatch", "=", "true">>]

(* limit, then sortOrder, then cursor, as in the five methods that take all three *)
AppendPaging(b, a) ==
    AppendCursor(AppendSortOrder(AppendLimit(b, a.limit, LimitMsgUsers), a.sortOrder),
                 a.cursor)

get_badge_url(a) == <<"https://badges.roblox.com/v1/badges/">> \o IntToStr(a.id)
get_group_url(a) == <<"https://groups.roblox.com/v1/groups/">> \o IntToStr(a.id)
get_user_url(a) == <<"https://users.roblox.com/v1/users/">> \o IntToStr(a.id)
roles_url(a) ==
    <<"https://groups.roblox.com/v1/groups/">> \o IntToStr(a.id) \o <<"/roles">>
avatar_url(a) ==
    <<"https://avatar.roblox.com/v1/users/">> \o IntToStr(a.id) \o <<"/avatar">>
friends_url(a) ==
    <<"https://friends.roblox.com/v1/users/">> \o IntToStr(a.id) \o <<"/friends">>

GroupData_games_url(a) ==
    AppendPaging(Building(<<"https://games.roblox.com/v2/groups/">> \o IntToStr(a.id)
                          \o <<"/games", "?", "accessFilter", "=", "2">>), a)
UserData_games_url(a) ==
    AppendPaging(Building(<<"https://games.roblox.com/v2/users/">> \o IntToStr(a.id)
                          \o <<"/games", "?", "accessFilter", "=", "2">>), a)
badges_url(a) ==
    AppendPaging(Building(<<"https://badges.roblox.com/v1/users/">> \o IntToStr(a.id)
                          \o <<"/badges">>), a)
followers_url(a) ==
    AppendPaging(Building(<<"https://friends.roblox.com/v1/users/">> \o IntToStr(a.id)
                          \o <<"/followers">>), a)
followings_url(a) ==
    AppendPaging(Building(<<"https://friends.roblox.com/v1/users/">> \o IntToStr(a.id)
                          \o <<"/followings">>), a)
search_users_url(a) ==
    AppendCursor(
        AppendLimit(Building(<<"https://users.roblox.com/v1/users/search", "?",
                               "keyword", "=">> \o a.keyword),
                    a.limit, LimitMsgSearch),
        a.cursor)
search_groups_url(a) ==
    AppendCursor(
        AppendLimit(
            AppendPrioritize(Building(<<"https://groups.roblox.com/v1/groups/search",
                                        "?", "keyword", "=">> \o a.keyword),
                             a.prioritizeExactMatch),
            a.limit, LimitMsgSearch),
        a.cursor)

(* The public operations *)
SortedOps == {"GroupData.games", "UserData.games", "badges", "followers", "followings"}
SearchOps == {"search_users", "search_groups"}
PaginatedOps == SortedOps \cup SearchOps
PlainOps == {"get_badge", "get_group", "get_user", "roles", "avatar", "friends"}
Ops == PlainOps \cup PaginatedOps

(* What the function does up to its requests.get call *)
BuildRequest(o, a) ==
    CASE o = "get_badge" -> Building(get_badge_url(a))
      [] o = "get_group" -> Building(get_group_url(a))
      [] o = "get_user" -> Building(get_user_url(a))
      [] o = "roles" -> Building(roles_url(a))
      [] o = "avatar" -> Building(avatar_url(a))
      [] o = "friends" -> Building(friends_url(a))
      [] o = "GroupData.games" -> GroupData_games_url(a)
      [] o = "UserData.games" -> UserData_games_url(a)
      [] o = "badges" -> badges_url(a)
      [] o = "followers" -> followers_url(a)
      [] o = "followings" -> followings_url(a)
      [] o = "search_users" -> search_users_url(a)
      [] o = "search_groups" -> search_groups_url(a)

(* The headers argument of the requests.get call *)
AcceptJson == {<<"accept", "application/json">>}
RequestHeaders(o) ==
    IF o \in {"get_badge", "get_group", "roles", "avatar"} THEN {} ELSE AcceptJson

----------------------------------------------------------------------------
(* Responses: status dispatch and JSON mapping *)

(* UnexpectedMsg without the status code *)
UnexpectedMsg_NoCode(status) == <<"Unexpected HTTP status code: ">>

(* A response: its status code and what the code reads of its JSON body.   *)
(*   errors  the 'errors' key: None when absent, else the list of entries, *)
(*           each with an optional 'code' and an optional 'message';       *)
(*   body    the JSON object of a 200 response.                            *)
UnexpectedMsg(status) == <<"Unexpected HTTP status code: ">> \o IntToStr(status)

(* the if / elif chain on response.status_code of get_group, get_user,     *)
(* GroupData.roles and UserData.avatar, for a status that is not 200       *)
StatusChain(status, notFound) ==
    IF status = 404 THEN Raise("RobloxNotFoundError", <<notFound>>)
    ELSE IF status = 400 THEN Raise("RobloxBadRequestError", <<"Bad request.">>)
    ELSE IF status = 401
         THEN Raise("RobloxUnauthorizedError", <<"Unauthorized. Authentication required.">>)
    ELSE IF status = 429
         THEN Raise("RobloxRateLimitError", <<"Rate limit exceeded. Please try again later.">>)
    ELSE IF status = 500 THEN Raise("RobloxInternalServerError", <<"Internal server error.">>)
    ELSE Raise("RobloxUnexpectedError", UnexpectedMsg(status))

(* response.json()['errors'][0]: the exception the subscripts raise, or NoOutcome *)
FirstErrorFailure(r) ==
    IF IsNone(r.errors) THEN Raise("KeyError", <<"errors">>)
    ELSE IF Val(r.errors) = <<>> THEN Raise("IndexError", <<"list index out of range">>)
    ELSE NoOutcome

(* int(response.json()['errors'][0]['code']) *)
ErrorCodeFailure(r) ==
    IF FirstErrorFailure(r) # NoOutcome THEN FirstErrorFailure(r)
    ELSE IF IsNone(Val(r.errors)[1].code) THEN Raise("KeyError", <<"code">>)
    ELSE NoOutcome
ErrorCode(r) == Val(Val(r.errors)[1].code)

(* response.json()['errors'][0]['message'] *)
ErrorMessageFailure(r) ==
    IF FirstErrorFailure(r) # NoOutcome THEN FirstErrorFailure(r)
    ELSE IF IsNone(Val(r.errors)[1].message) THEN Raise("KeyError", <<"message">>)
    ELSE NoOutcome
ErrorMessage(r) == <<Val(Val(r.errors)[1].message)>>

(* BadRequestFromBody choosing the error kind by the search sub-codes *)
BadRequestFromBody_SubCoded(r) ==
    IF ErrorMessageFailure(r) # NoOutcome THEN ErrorMessageFailure(r)
    ELSE IF ~IsNone(Val(r.errors)[1].code) /\ ErrorCode(r) = 5
         THEN Raise("RobloxSearchTermFilteredError", ErrorMessage(r))
    ELSE IF ~IsNone(Val(r.errors)[1].code) /\ ErrorCode(r) = 6
         THEN Raise("RobloxSearchTermTooShort", ErrorMessage(r))
    ELSE Raise("RobloxBadRequestError", ErrorMessage(r))

(* if response.status_code == 400: of badges, followers, followings,       *)
(* friends and both games                                                  *)
BadRequestFromBody(r) ==
    IF ErrorMessageFailure(r) # NoOutcome THEN ErrorMessageFailure(r)
    ELSE Raise("RobloxBadRequestError", ErrorMessage(r))

TooManyRequests == Raise("RobloxRateLimitError", <<"Too many requests.">>)

(* JSON as the code reads it: an object is a function from its present    *)
(* keys to values; a value is None (null) or Some of a scalar, an object   *)
(* or a list.                                                              *)

(* dict.get(k, None) and dict.get(k) *)
Get(obj, k) == IF k \in DOMAIN obj THEN obj[k] ELSE None

(* Python truth value of a looked-up value: None, {} and [] are false *)
TruthyJson(o) == ~IsNone(o) /\ Val(o) # <<>>

(* T(f1=obj.get('f1', None), f2=obj.get('f2', None), ...): the dataclass   *)
(* instance with every field of T looked up in obj                         *)
DataClass(type, fields, obj) ==
    [k \in fields \cup {"type"} |-> IF k = "type" THEN type ELSE Get(obj, k)]

UserKeys == {"description", "created", "isBanned", "externalAppDisplayName",
             "hasVerifiedBadge", "id", "name", "displayName"}
GroupKeys == {"id", "name", "description", "owner", "shout", "memberCount",
              "isBuildersClubOnly", "publicEntryAllowed", "isLocked", "hasVerifiedBadge"}
OwnerKeys == {"buildersClubMembershipType", "hasVerifiedBadge", "userId", "username",
              "displayName"}
ShoutKeys == {"body", "poster", "created", "updated"}
BadgeKeys == {"id", "name", "description", "displayName", "displayDescription", "enabled",
              "iconImageId", "displayIconImageId", "created", "updated", "statistics",
              "awardingUniverse"}
StatisticsKeys == {"pastDayAwardedCount", "awardedCount", "winRatePercentage"}
AwardingUniverseKeys == {"id", "name", "rootPlaceId"}
RoleKeys == {"id", "name", "description", "rank", "memberCount"}
FollowerKeys == {"isOnline", "presenceType", "isDeleted", "friendFrequentScore",
                 "friendFrequentRank", "hasVerifiedBadge", "description", "created",
                 "isBanned", "externalAppDisplayName", "id", "name", "displayName"}
UserSearchKeys == {"previousUsernames", "hasVerifiedBadge", "id", "name", "displayName"}
GroupSearchKeys == {"id", "name", "description", "memberCount", "previousName",
                    "publicEntryAllowed", "created", "updated", "hasVerifiedBadge"}
ScalesKeys == {"height", "width", "head", "depth", "proportion", "bodyType"}
AvatarKeys == {"scales", "playerAvatarType", "bodyColors", "assets", "defaultShirtApplied",
               "defaultPantApplied", "emotes"}

(* MapItems building the list from the last item to the first *)
MapItems_Reversed(itemType, fields, items) ==
    [i \in 1..Len(items) |-> DataClass(itemType, fields, items[Len(items) + 1 - i])]

(* [T(...) for item in items] *)
MapItems(itemType, fields, items) ==
    [i \in 1..Len(items) |-> DataClass(itemType, fields, items[i])]

(* R(previousPageCursor=search_data.get(...), nextPageCursor=search_data.get(...), *)
(*   data=[T(...) for item in search_data['data']])                                *)
PageOf(type, itemType, fields, search_data) ==
    IF "data" \notin DOMAIN search_data THEN Raise("KeyError", <<"data">>)
    ELSE Return([type |-> type,
                 previousPageCursor |-> Get(search_data, "previousPageCursor"),
                 nextPageCursor |-> Get(search_data, "nextPageCursor"),
                 data |-> MapItems(itemType, fields, Val(search_data.data))])

(* badge_data['statistics'] and badge_data['awardingUniverse'] are         *)
(* subscripted, and so are their own keys, in the order of fields, when    *)
(* the value is truthy                                                     *)
SubscriptFailure(obj, k, fields) ==
    IF k \notin DOMAIN obj THEN Raise("KeyError", <<k>>)
    ELSE IF TruthyJson(obj[k]) /\ \E i \in 1..Len(fields) : fields[i] \notin DOMAIN Val(obj[k])
         THEN Raise("KeyError",
                    <<fields[CHOOSE i \in 1..Len(fields) :
                               /\ fields[i] \notin DOMAIN Val(obj[k])
                               /\ \A j \in 1..(i - 1) : fields[j] \in DOMAIN Val(obj[k])]>>)
    ELSE NoOutcome

(* SubRecord testing the sub-object against None only: an empty object is *)
(* built into a sub-record                                                 *)
SubRecord_IsNotNone(type, fields, o) ==
    IF ~IsNone(o) THEN Some(DataClass(type, fields, Val(o))) ELSE None

(* None, or the sub-record built from a truthy sub-object *)
SubRecord(type, fields, o) ==
    IF TruthyJson(o) THEN Some(DataClass(type, fields, Val(o))) ELSE None

(* get_badge through the if / elif chain of get_group *)
get_badge_response_Chain(r) ==
    IF r.status # 200 THEN StatusChain(r.status, "Badge is invalid or does not exist.")
    ELSE Return(DataClass("BadgeData", BadgeKeys, r.body))

StatisticsFailure(badge_data) ==
    SubscriptFailure(badge_data, "statistics",
                     <<"pastDayAwardedCount", "awardedCount", "winRatePercentage">>)
AwardingUniverseFailure(badge_data) ==
    SubscriptFailure(badge_data, "awardingUniverse", <<"id", "name", "rootPlaceId">>)

get_badge_response(r) ==
    IF r.status = 404
    THEN Raise("RobloxNotFoundError", <<"Badge is invalid or does not exist.">>)
    ELSE IF r.status # 200 THEN Raise("RobloxUnexpectedError", UnexpectedMsg(r.status))
    ELSE IF StatisticsFailure(r.body) # NoOutcome THEN StatisticsFailure(r.body)
    ELSE IF AwardingUniverseFailure(r.body) # NoOutcome THEN AwardingUniverseFailure(r.body)
    ELSE Return([k \in BadgeKeys \cup {"type"} |->
                   CASE k = "type" -> "BadgeData"
                     [] k = "statistics" ->
                          SubRecord("BadgeStatistics", StatisticsKeys, r.body.statistics)
                     [] k = "awardingUniverse" ->
                          SubRecord("BadgeAwardingUniverse", AwardingUniverseKeys,
                                    r.body.awardingUniverse)
                     [] OTHER -> Get(r.body, k)])

(* get_group_shout giving no shout at all when the shout has no poster *)
get_group_shout_PosterRequired(shout_data) ==
    IF ~TruthyJson(shout_data) \/ ~TruthyJson(Get(Val(shout_data), "poster")) THEN None
    ELSE Some([k \in ShoutKeys \cup {"type"} |->
                 CASE k = "type" -> "ShoutData"
                   [] k = "poster" ->
                        SubRecord("PosterData", OwnerKeys, Get(Val(shout_data), "poster"))
                   [] OTHER -> Get(Val(shout_data), k)])

(* shout = None, or ShoutData with poster None or PosterData *)
get_group_shout(shout_data) ==
    IF ~TruthyJson(shout_data) THEN None
    ELSE Some([k \in ShoutKeys \cup {"type"} |->
                 CASE k = "type" -> "ShoutData"
                   [] k = "poster" ->
                        SubRecord("PosterData", OwnerKeys, Get(Val(shout_data), "poster"))
                   [] OTHER -> Get(Val(shout_data), k)])

get_group_response(r) ==
    IF r.status # 200 THEN StatusChain(r.status, "Group not found.")
    ELSE Return([k \in GroupKeys \cup {"type"} |->
                   CASE k = "type" -> "GroupData"
                     [] k = "owner" -> SubRecord("OwnerData", OwnerKeys, Get(r.body, "owner"))
                     [] k = "shout" -> get_group_shout(Get(r.body, "shout"))
                     [] OTHER -> Get(r.body, k)])

get_user_response(r) ==
    IF r.status # 200 THEN StatusChain(r.status, "User not found.")
    ELSE Return(DataClass("UserData", UserKeys, r.body))

(* roles_data.get('roles', []): an absent list is the empty list *)
roles_response(r) ==
    IF r.status # 200 THEN StatusChain(r.status, "Group not found.")
    ELSE Return([type |-> "List[RoleData]",
                 data |-> MapItems("RoleData", RoleKeys,
                                   IF "roles" \in DOMAIN r.body THEN Val(r.body.roles)
                                   ELSE <<>>)])

(* scales_data = data['scales'], then scales.get(...) reads the local name *)
(* scales before its assignment                                            *)
avatar_response(r) ==
    IF r.status # 200 THEN StatusChain(r.status, "User not found.")
    ELSE IF "scales" \notin DOMAIN r.body THEN Raise("KeyError", <<"scales">>)
    ELSE Raise("UnboundLocalError", <<"scales">>)

(* search_data['data'].get('creator') on the list under 'data' *)
games_response(r) ==
    IF r.status = 400 THEN BadRequestFromBody(r)
    ELSE IF r.status = 429 THEN TooManyRequests
    ELSE IF r.status = 200
         THEN IF "data" \notin DOMAIN r.body THEN Raise("KeyError", <<"data">>)
              ELSE Raise("AttributeError", <<"'list' object has no attribute 'get'">>)
    ELSE ReturnNone

(* search_data['data']['statistics'] on the list under 'data' *)
badges_response(r) ==
    IF r.status = 400 THEN BadRequestFromBody(r)
    ELSE IF r.status = 429 THEN TooManyRequests
    ELSE IF r.status = 200
         THEN IF "data" \notin DOMAIN r.body THEN Raise("KeyError", <<"data">>)
              ELSE Raise("TypeError", <<"list indices must be integers or slices, not str">>)
    ELSE ReturnNone

(* followers_response ending in an else that raises, as search_groups does *)
followers_response_ElseRaises(r) ==
    IF r.status = 400 THEN BadRequestFromBody(r)
    ELSE IF r.status = 429 THEN TooManyRequests
    ELSE IF r.status = 200
         THEN PageOf("FollowersResultData", "FollowerData", FollowerKeys, r.body)
    ELSE Raise("RobloxUnexpectedError", UnexpectedMsg(r.status))

followers_response(r) ==
    IF r.status = 400 THEN BadRequestFromBody(r)
    ELSE IF r.status = 429 THEN TooManyRequests
    ELSE IF r.status = 200
         THEN PageOf("FollowersResultData", "FollowerData", FollowerKeys, r.body)
    ELSE ReturnNone

followings_response(r) ==
    IF r.status = 400 THEN BadRequestFromBody(r)
    ELSE IF r.status = 429 THEN TooManyRequests
    ELSE IF r.status = 200
         THEN PageOf("FollowingsResultData", "FollowingData", FollowerKeys, r.body)
    ELSE ReturnNone

(* friends returns the list itself, without cursors *)
friends_response(r) ==
    IF r.status = 400 THEN BadRequestFromBody(r)
    ELSE IF r.status = 429 THEN TooManyRequests
    ELSE IF r.status = 200
         THEN IF "data" \notin DOMAIN r.body THEN Raise("KeyError", <<"data">>)
              ELSE Return([type |-> "List[FriendData]",
                           data |-> MapItems("FriendData", FollowerKeys, Val(r.body.data))])
    ELSE ReturnNone

(* search_users_400 handling all five sub-codes *)
search_users_400_AllCodes(r) ==
    IF ErrorCodeFailure(r) # NoOutcome THEN ErrorCodeFailure(r)
    ELSE IF ErrorMessageFailure(r) # NoOutcome THEN ErrorMessageFailure(r)
    ELSE IF ErrorCode(r) = 2
         THEN Raise("RobloxSearchTermInappropriateError", ErrorMessage(r))
    ELSE IF ErrorCode(r) = 3 THEN Raise("RobloxSearchTermEmptyError", ErrorMessage(r))
    ELSE IF ErrorCode(r) = 4 THEN Raise("RobloxSearchTermLengthError", ErrorMessage(r))
    ELSE IF ErrorCode(r) = 5 THEN Raise("RobloxSearchTermFilteredError", ErrorMessage(r))
    ELSE IF ErrorCode(r) = 6 THEN Raise("RobloxSearchTermTooShort", ErrorMessage(r))
    ELSE Raise("RobloxBadRequestError", ErrorMessage(r))

(* search_users_400 raising with a fixed message, as get_user does *)
search_users_400_FixedMessage(r) ==
    IF ErrorCodeFailure(r) # NoOutcome THEN ErrorCodeFailure(r)
    ELSE IF ErrorMessageFailure(r) # NoOutcome THEN ErrorMessageFailure(r)
    ELSE IF ErrorCode(r) = 5 THEN Raise("RobloxSearchTermFilteredError", <<"Bad request.">>)
    ELSE IF ErrorCode(r) = 6 THEN Raise("RobloxSearchTermTooShort", <<"Bad request.">>)
    ELSE Raise("RobloxBadRequestError", <<"Bad request.">>)

search_users_400(r) ==
    IF ErrorCodeFailure(r) # NoOutcome THEN ErrorCodeFailure(r)
    ELSE IF ErrorMessageFailure(r) # NoOutcome THEN ErrorMessageFailure(r)
    ELSE IF ErrorCode(r) = 5 THEN Raise("RobloxSearchTermFilteredError", ErrorMessage(r))
    ELSE IF ErrorCode(r) = 6 THEN Raise("RobloxSearchTermTooShort", ErrorMessage(r))
    ELSE Raise("RobloxBadRequestError", ErrorMessage(r))

search_users_response(r) ==
    IF r.status = 400 THEN search_users_400(r)
    ELSE IF r.status = 429 THEN TooManyRequests
    ELSE IF r.status = 200 THEN PageOf("UserSearchResults", "UserSearchResult", UserSearchKeys, r.body)
    ELSE ReturnNone

search_groups_400(r) ==
    IF ErrorCodeFailure(r) # NoOutcome THEN ErrorCodeFailure(r)
    ELSE IF ErrorMessageFailure(r) # NoOutcome THEN ErrorMessageFailure(r)
    ELSE IF ErrorCode(r) = 2
         THEN Raise("RobloxSearchTermInappropriateError", ErrorMessage(r))
    ELSE IF ErrorCode(r) = 3 THEN Raise("RobloxSearchTermEmptyError", ErrorMessage(r))
    ELSE IF ErrorCode(r) = 4 THEN Raise("RobloxSearchTermLengthError", ErrorMessage(r))
    ELSE Raise("RobloxBadRequestError", ErrorMessage(r))

(* search_groups_response without its final else, as search_users ends *)
search_groups_response_NoElse(r) ==
    IF r.status = 400 THEN search_groups_400(r)
    ELSE IF r.status = 429 THEN TooManyRequests
    ELSE IF r.status = 200 THEN PageOf("GroupSearchResults", "GroupSearchResult", GroupSearchKeys, r.body)
    ELSE ReturnNone

search_groups_response(r) ==
    IF r.status = 400 THEN search_groups_400(r)
    ELSE IF r.status = 429 THEN TooManyRequests
    ELSE IF r.status = 200 THEN PageOf("GroupSearchResults", "GroupSearchResult", GroupSearchKeys, r.body)
    ELSE Raise("RobloxUnexpectedError", UnexpectedMsg(r.status))

(* What the function does with the response of its requests.get call *)
HandleResponse(o, r) ==
    CASE o = "get_badge" -> get_badge_response(r)
      [] o = "get_group" -> get_group_response(r)
      [] o = "get_user" -> get_user_response(r)
      [] o = "roles" -> roles_response(r)
      [] o = "avatar" -> avatar_response(r)
      [] o = "friends" -> friends_response(r)
      [] o = "GroupData.games" -> games_response(r)
      [] o = "UserData.games" -> games_response(r)
      [] o = "badges" -> badges_response(r)
      [] o = "followers" -> followers_response(r)
      [] o = "followings" -> followings_response(r)
      [] o = "search_users" -> search_users_response(r)
      [] o = "search_groups" -> search_groups_response(r)

----------------------------------------------------------------------------
(* The inputs: what callers pass and what the server answers *)

SeqsUpTo(S, n) == UNION {[1..k -> S] : k \in 0..n}

Ids == {1, 23}
Keywords == {<<"R", "o">>, <<"a", "&", "b">>}
LimitArgs == {None} \cup {Some(n) : n \in {-1, 0, 5, 10, 25, 50, 100, 101}}
SortOrderArgs == {None} \cup {Some(x) : x \in {"", "Asc", "Desc", "asc", "Descending"}}
CursorArgs ==
    {None} \cup {Some(c) : c \in {<<>>, <<"a">>, <<"e", "=">>, <<" ", "&", "%">>}}

DefaultArgs == [id |-> 1, keyword |-> <<>>, limit |-> None, cursor |-> None,
                sortOrder |-> None, prioritizeExactMatch |-> FALSE]

(* The arguments of each operation; the ones it does not take keep their default *)
ArgsFor(o) ==
    IF o \in SortedOps
    THEN {[DefaultArgs EXCEPT !.id = i, !.limit = l, !.cursor = c, !.sortOrder = s] :
            i \in Ids, l \in LimitArgs, c \in CursorArgs, s \in SortOrderArgs}
    ELSE IF o = "search_users"
    THEN {[DefaultArgs EXCEPT !.keyword = k, !.limit = l, !.cursor = c] :
            k \in Keywords, l \in LimitArgs, c \in CursorArgs}
    ELSE IF o = "search_groups"
    THEN {[DefaultArgs EXCEPT !.keyword = k, !.limit = l, !.cursor = c,
                              !.prioritizeExactMatch = p] :
            k \in Keywords, l \in LimitArgs, c \in CursorArgs, p \in BOOLEAN}
    ELSE {[DefaultArgs EXCEPT !.id = i] : i \in Ids}

Statuses == {200, 204, 400, 401, 404, 429, 500, 503}

ErrorEntries ==
    [code : {None} \cup {Some(c) : c \in 0..MaxSubCode},
     message : {None, Some("The keyword was filtered."), Some("The keyword is too short.")}]
ErrorLists == {None, Some(<<>>)} \cup {Some(<<e>>) : e \in ErrorEntries}

NoResponse == [status |-> 0, errors |-> None, body |-> <<>>]

(* JSON bodies of 200 responses.  A scalar is an opaque token naming its   *)
(* key and its sample, so that a value mapped to the wrong field shows.    *)
Scalar(k, t) == Some(<<k, t>>)
Object(keys, t) == [k \in keys |-> Scalar(k, t)]
Restrict(obj, keys) == [k \in keys \cap DOMAIN obj |-> obj[k]]

(* A complete object, another one, one with a single key, an empty one *)
Items(keys) == {Object(keys, "A"), Object(keys, "B"), Object(keys \cap {"id"}, "A")}
Objects(keys) == Items(keys) \cup {<<>>}

(* A key absent, null, or holding one of the values vs *)
Part(k, vs) == {<<>>} \cup {k :> v : v \in {None} \cup {Some(x) : x \in vs}}

(* The item keys of the list an operation reads *)
ItemKeys(o) ==
    CASE o = "search_users" -> UserSearchKeys
      [] o = "search_groups" -> GroupSearchKeys
      [] o = "roles" -> RoleKeys
      [] o = "badges" -> BadgeKeys
      [] o \in {"followers", "followings", "friends"} -> FollowerKeys
      [] OTHER -> {"id", "name", "description", "created", "updated", "placeVisits"}

Cursors == {<<>>, "nextPageCursor" :> Some(<<"n1">>),
            ("previousPageCursor" :> Some(<<"p1">>)) @@ ("nextPageCursor" :> None),
            ("previousPageCursor" :> Some(<<"p1">>)) @@ ("nextPageCursor" :> Some(<<"n1">>))}

ListBodies(o) ==
    {c @@ d : c \in (IF o \in {"roles", "friends"} THEN {<<>>} ELSE Cursors),
              d \in {<<>>} \cup {(IF o = "roles" THEN "roles" ELSE "data") :> Some(l) :
                                   l \in SeqsUpTo(Items(ItemKeys(o)), MaxItems)}}

OwnerObjects == {Object(OwnerKeys, "A"), Object({"userId"}, "B"), <<>>}
ShoutObjects ==
    {Object(ShoutKeys \ {"poster"}, "A") @@ p : p \in Part("poster", OwnerObjects)}
    \cup {<<>>}
GroupBodies ==
    {g @@ ow @@ sh : g \in {Object(GroupKeys \ {"owner", "shout"}, "A"), Object({"id"}, "B")},
                     ow \in Part("owner", OwnerObjects),
                     sh \in Part("shout", ShoutObjects)}

BadgeBodies ==
    {b @@ st @@ au :
       b \in {Object(BadgeKeys \ {"statistics", "awardingUniverse"}, "A"), Object({"id"}, "B")},
       st \in Part("statistics", Objects(StatisticsKeys)),
       au \in Part("awardingUniverse", Objects(AwardingUniverseKeys))}

AvatarBody ==
    [k \in AvatarKeys |->
       CASE k = "scales" -> Some(Object(ScalesKeys, "A"))
         [] k = "bodyColors" -> Some(Object({"headColorId", "torsoColorId"}, "A"))
         [] k \in {"assets", "emotes"} -> Some(<<>>)
         [] OTHER -> Scalar(k, "A")]
AvatarBodies == {Restrict(AvatarBody, ks) : ks \in SUBSET AvatarKeys}

ListOps == PaginatedOps \cup {"roles", "friends"}
Bodies(o) ==
    CASE o \in ListOps -> ListBodies(o)
      [] o = "get_group" -> GroupBodies
      [] o = "get_badge" -> BadgeBodies
      [] o = "avatar" -> AvatarBodies
      [] OTHER -> Objects(UserKeys) \cup {[Object(UserKeys, "A") EXCEPT !.description = None]}

(* The responses the server may give to operation o: any status, any error *)
(* list with a 400, any body with a 200.                                   *)
Responses(o) ==
    {[NoResponse EXCEPT !.status = s] : s \in Statuses \ {200, 400}}
    \cup {[NoResponse EXCEPT !.status = 400, !.errors = e] : e \in ErrorLists}
    \cup {[NoResponse EXCEPT !.status = 200, !.body = b] : b \in Bodies(o)}

----------------------------------------------------------------------------
(* The state machine *)

(* SendRequest issuing the request a second time *)
SendRequestTwice(log, url, headers) ==
    log \o <<[method |-> "GET", url |-> url, headers |-> headers],
             [method |-> "GET", url |-> url, headers |-> headers]>>

(* requests.get(url, headers=...): one GET is issued *)
SendRequest(log, url, headers) ==
    Append(log, [method |-> "GET", url |-> url, headers |-> headers])

Init ==
    /\ pc = "idle"
    /\ op = "none"
    /\ args = DefaultArgs
    /\ requests = <<>>
    /\ response = NoResponse
    /\ outcome = NoOutcome
    /\ loading = "none"
    /\ prior = "none"

(* A caller invokes operation o with arguments a: the function runs up to  *)
(* its requests.get call, or raises in a pre-flight check.                 *)
Call ==
    /\ pc = "idle"
    /\ \E o \in Ops : \E a \in ArgsFor(o) :
        LET b == BuildRequest(o, a) IN
        /\ op' = o
        /\ args' = a
        /\ response' = NoResponse
        /\ IF b.ok
           THEN /\ requests' = SendRequest(requests, b.url, RequestHeaders(o))
                /\ pc' = "awaiting"
                /\ outcome' = NoOutcome
           ELSE /\ requests' = requests
                /\ pc' = "done"
                /\ outcome' = Raise(b.exc, b.msg)
    /\ UNCHANGED <<loading, prior>>

(* f"{self.id}" for the id get_user took from the body *)
FormatValue(v) == IF IsNone(v) THEN <<"None">> ELSE Val(v)

(* The Users module is loaded: its last statement,                         *)
(* print(get_user(123).avatar()), runs get_user(123) up to requests.get    *)
LoadUsers ==
    /\ pc = "idle"
    /\ loading' = "get_user"
    /\ op' = "get_user"
    /\ args' = [DefaultArgs EXCEPT !.id = 123]
    /\ requests' = SendRequest(requests, get_user_url(args'), RequestHeaders("get_user"))
    /\ pc' = "awaiting"
    /\ UNCHANGED <<response, outcome, prior>>

(* get_user(123) has returned a UserData while the module is loading: the  *)
(* statement goes on with its avatar(), up to requests.get; args keeps the *)
(* argument of the statement, self.id is the id of the body                *)
LoadAvatar ==
    /\ pc = "done"
    /\ loading = "get_user"
    /\ outcome.kind = "returned"
    /\ loading' = "avatar"
    /\ op' = "avatar"
    /\ requests' = SendRequest(<<>>, <<"https://avatar.roblox.com/v1/users/">>
                                       \o FormatValue(outcome.val.id) \o <<"/avatar">>,
                               RequestHeaders("avatar"))
    /\ response' = NoResponse
    /\ outcome' = NoOutcome
    /\ prior' = outcome.kind
    /\ pc' = "awaiting"
    /\ UNCHANGED args

(* Respond with a memory of the previous call: after a failed call the    *)
(* next one fails too, whatever the server answers                         *)
Respond_AfterFailure ==
    /\ pc = "awaiting"
    /\ \E r \in Responses(op) :
        /\ response' = r
        /\ outcome' = IF prior = "raised"
                      THEN Raise("RobloxUnexpectedError", UnexpectedMsg(r.status))
                      ELSE HandleResponse(op, r)
    /\ pc' = "done"
    /\ UNCHANGED <<op, args, requests, loading, prior>>

(* The response arrives and the rest of the function runs *)
Respond ==
    /\ pc = "awaiting"
    /\ \E r \in Responses(op) :
        /\ response' = r
        /\ outcome' = HandleResponse(op, r)
    /\ pc' = "done"
    /\ UNCHANGED <<op, args, requests, loading, prior>>

(* TransportFail caught and turned into the unexpected status error *)
TransportFail_AsUnexpected ==
    /\ pc = "awaiting"
    /\ outcome' = Raise("RobloxUnexpectedError", UnexpectedMsg(0))
    /\ pc' = "done"
    /\ UNCHANGED <<op, args, requests, response, loading, prior>>

(* requests.get raises instead of returning: the exception propagates *)
TransportFail ==
    /\ pc = "awaiting"
    /\ \E e \in {"ConnectionError", "Timeout"} : outcome' = Raise(e, <<>>)
    /\ pc' = "done"
    /\ UNCHANGED <<op, args, requests, response, loading, prior>>

(* The outcome reaches the caller (of the function, or of the import);     *)
(* nothing of the invocation is kept.  prior remembers, for the            *)
(* properties only, how the call ended.                                    *)
Finish ==
    /\ pc = "done"
    /\ ~(loading = "get_user" /\ outcome.kind = "returned")
    /\ pc' = "idle"
    /\ op' = "none"
    /\ args' = DefaultArgs
    /\ requests' = <<>>
    /\ response' = NoResponse
    /\ outcome' = NoOutcome
    /\ loading' = "none"
    /\ prior' = outcome.kind

Next == Call \/ LoadUsers \/ LoadAvatar \/ Respond \/ TransportFail \/ Finish

Spec == Init /\ [][Next]_vars

----------------------------------------------------------------------------
(* Vocabulary of the properties *)

Invoked == pc \in {"awaiting", "done"}

(* The invocation ended in a pre-flight BadRequest without any request *)
RejectedPreFlight ==
    /\ pc = "done"
    /\ requests = <<>>
    /\ outcome.kind = "raised"
    /\ outcome.exc = "RobloxBadRequestError"

LimitValidOrOmitted == IsNone(args.limit) \/ Val(args.limit) \in {10, 25, 50, 100}
SortOrderValidOrOmitted == IsNone(args.sortOrder) \/ Val(args.sortOrder) \in {"Asc", "Desc"}

(* t occurs in s as a contiguous run *)
Contains(s, t) ==
    \E i \in 0..(Len(s) - Len(t)) : SubSeq(s, i + 1, i + Len(t)) = t

(* The position of the first x in s, 0 when there is none *)
FirstIndex(s, x) ==
    IF \E i \in 1..Len(s) : s[i] = x
    THEN CHOOSE i \in 1..Len(s) : s[i] = x /\ \A j \in 1..(i - 1) : s[j] # x
    ELSE 0

RECURSIVE SplitOn(_, _)
SplitOn(s, d) ==
    IF FirstIndex(s, d) = 0 THEN <<s>>
    ELSE <<SubSeq(s, 1, FirstIndex(s, d) - 1)>>
         \o SplitOn(SubSeq(s, FirstIndex(s, d) + 1, Len(s)), d)

(* The query parameters of a URL: what follows its first ?, split at & *)
QueryParams(url) ==
    IF FirstIndex(url, "?") = 0 THEN <<>>
    ELSE SplitOn(SubSeq(url, FirstIndex(url, "?") + 1, Len(url)), "&")

CountParam(url, p) ==
    Cardinality({i \in 1..Len(QueryParams(url)) : QueryParams(url)[i] = p})

----------------------------------------------------------------------------
(* C1: in every paginated operation, every integer limit outside           *)
(* {10, 25, 50, 100} makes the call fail with a BadRequest error and no    *)
(* HTTP request is issued.  The code lets limit = 0 through.               *)
C1_LimitOutsideSetRejected ==
    (Invoked /\ op \in PaginatedOps /\ ~IsNone(args.limit)
       /\ Val(args.limit) \notin {10, 25, 50, 100})
    => RejectedPreFlight

(* C2: in every paginated operation, for every limit in {10, 25, 50, 100}  *)
(* the URL of the single request carries limit=<value> exactly once among  *)
(* the query parameters that follow the ? of the URL.  The URLs of badges, *)
(* followers and followings have no ?.                                     *)
C2_LimitIsQueryParameterOnce ==
    (Invoked /\ op \in PaginatedOps /\ ~IsNone(args.limit)
       /\ Val(args.limit) \in {10, 25, 50, 100} /\ requests # <<>>)
    => /\ Len(requests) = 1
       /\ CountParam(requests[1].url, <<"limit", "=">> \o IntToStr(Val(args.limit))) = 1

(* C3: in every operation that takes sortOrder, for every string sortOrder *)
(* (limit being valid or omitted) the call fails pre-flight with a         *)
(* BadRequest error and no request if and only if sortOrder is not exactly *)
(* "Asc" or "Desc"; for those two the request is sent.  The code lets the  *)
(* empty string through.                                                   *)
C3_SortOrderRejectedIffInvalid ==
    (Invoked /\ op \in SortedOps /\ ~IsNone(args.sortOrder) /\ LimitValidOrOmitted)
    => /\ RejectedPreFlight <=> Val(args.sortOrder) \notin {"Asc", "Desc"}
       /\ Val(args.sortOrder) \in {"Asc", "Desc"} => Len(requests) = 1

(* C4: in every paginated operation, for every non-empty cursor (limit and *)
(* sortOrder valid or omitted) no pre-flight check fails, the request is   *)
(* sent, and its URL contains cursor=<cursor> with the characters of the   *)
(* cursor unchanged.                                                       *)
C4_CursorForwardedVerbatim ==
    (Invoked /\ op \in PaginatedOps /\ ~IsNone(args.cursor) /\ Val(args.cursor) # <<>>
       /\ LimitValidOrOmitted /\ SortOrderValidOrOmitted)
    => /\ Len(requests) = 1
       /\ Contains(requests[1].url, <<"cursor", "=">> \o Val(args.cursor))

(* a followers request with a cursor holding a space, an ampersand and a   *)
(* percent sign has been sent                                              *)
C4_Witness ==
    /\ pc = "awaiting"
    /\ op = "followers"
    /\ args.cursor = Some(<<" ", "&", "%">>)
    /\ args.limit = Some(25)
    /\ args.sortOrder = Some("Desc")
    /\ Len(requests) = 1

(* C5: in every public operation the response status alone determines    *)
(* the error kind: 400 BadRequest, 401 Unauthorized, 404 NotFound, 429     *)
(* RateLimited, 500 ServerError, any other non-200 status Unexpected.      *)
(* get_badge knows only 404; the list operations only 400 and 429.         *)
StatusErrorKind(status) ==
    CASE status = 400 -> "RobloxBadRequestError"
      [] status = 401 -> "RobloxUnauthorizedError"
      [] status = 404 -> "RobloxNotFoundError"
      [] status = 429 -> "RobloxRateLimitError"
      [] status = 500 -> "RobloxInternalServerError"
      [] OTHER -> "RobloxUnexpectedError"

Responded == pc = "done" /\ response.status # 0

C5_StatusAloneDeterminesErrorKind ==
    (Responded /\ response.status # 200)
    => /\ outcome.kind = "raised"
       /\ outcome.exc = StatusErrorKind(response.status)

(* C6: in every public operation a response status other than 200 ends the *)
(* operation in a raised error, never in a normal return.  The list        *)
(* operations return None for the statuses they do not test.               *)
C6_Non200AlwaysRaises ==
    (Responded /\ response.status # 200) => outcome.kind = "raised"

(* C7: an invocation issues at most one HTTP request, a GET: exactly one   *)
(* when the pre-flight checks pass, none when one fails; whatever the      *)
(* response status, the operation ends without issuing another request.    *)
PreFlightFails ==
    /\ op \in PaginatedOps
    /\ \/ ~IsNone(args.limit) /\ Val(args.limit) # 0
          /\ Val(args.limit) \notin {10, 25, 50, 100}
       \/ op \in SortedOps /\ ~IsNone(args.sortOrder) /\ Val(args.sortOrder) # ""
          /\ Val(args.sortOrder) \notin {"Asc", "Desc"}

C7_AtMostOneGetPerInvocation ==
    /\ Len(requests) <= 1
    /\ \A i \in 1..Len(requests) : requests[i].method = "GET"
    /\ pc = "idle" => requests = <<>>
    /\ Invoked => (Len(requests) = IF PreFlightFails THEN 0 ELSE 1)
    /\ pc = "done" /\ PreFlightFails => outcome.kind = "raised" /\ response.status = 0

(* search_groups has ended on a 429 response with its one request *)
C7_Witness ==
    /\ pc = "done"
    /\ op = "search_groups"
    /\ response.status = 429
    /\ outcome.exc = "RobloxRateLimitError"
    /\ Len(requests) = 1

(* A 400 response whose first error entry has a sub-code and a message *)
SubCoded400 ==
    /\ Responded
    /\ response.status = 400
    /\ ~IsNone(response.errors)
    /\ Val(response.errors) # <<>>
    /\ ~IsNone(Val(response.errors)[1].code)
    /\ ~IsNone(Val(response.errors)[1].message)
SubCode == Val(Val(response.errors)[1].code)
ServerMessage == <<Val(Val(response.errors)[1].message)>>

SubCodeKind(c) ==
    CASE c = 2 -> "RobloxSearchTermInappropriateError"
      [] c = 3 -> "RobloxSearchTermEmptyError"
      [] c = 4 -> "RobloxSearchTermLengthError"
      [] c = 5 -> "RobloxSearchTermFilteredError"
      [] c = 6 -> "RobloxSearchTermTooShort"
      [] OTHER -> "RobloxBadRequestError"

(* C8 as stated: in both searches a 400 response with sub-code 2, 3, 4, 5  *)
(* or 6 raises the matching search-term error, any other sub-code the      *)
(* generic BadRequest error.                                               *)
C8_BothSearchesMapFiveSubCodes ==
    (SubCoded400 /\ op \in SearchOps)
    => outcome.kind = "raised" /\ outcome.exc = SubCodeKind(SubCode)

(* C8 amended: each search maps the sub-codes of its own endpoint:         *)
(* search_groups 2, 3 and 4, search_users 5 and 6; every other sub-code,   *)
(* the other search's included, raises the generic BadRequest error.       *)
C8_EachSearchMapsItsOwnSubCodes ==
    (SubCoded400 /\ op \in SearchOps)
    => /\ outcome.kind = "raised"
       /\ outcome.exc =
            IF \/ op = "search_groups" /\ SubCode \in {2, 3, 4}
               \/ op = "search_users" /\ SubCode \in {5, 6}
            THEN SubCodeKind(SubCode)
            ELSE "RobloxBadRequestError"

(* search_users has answered sub-code 2 with the generic error *)
C8_Witness ==
    /\ SubCoded400
    /\ op = "search_users"
    /\ SubCode = 2
    /\ outcome.exc = "RobloxBadRequestError"

(* C9: search_users on a 400 response raises RobloxSearchTermTooShort for  *)
(* sub-code 6, RobloxSearchTermFilteredError for sub-code 5 and            *)
(* RobloxBadRequestError for every other sub-code, each time with the      *)
(* server's message; the errors for 5 and 6 are no RobloxBadRequestError.  *)
C9_SearchUsersSubCodes ==
    (SubCoded400 /\ op = "search_users")
    => /\ outcome.kind = "raised"
       /\ outcome.msg = ServerMessage
       /\ SubCode = 6 => outcome.exc = "RobloxSearchTermTooShort"
       /\ SubCode = 5 => outcome.exc = "RobloxSearchTermFilteredError"
       /\ SubCode \in {5, 6} => ~IsInstance(outcome.exc, "RobloxBadRequestError")
       /\ SubCode \notin {5, 6} => outcome.exc = "RobloxBadRequestError"

(* search_users has raised RobloxSearchTermTooShort with the server's words *)
C9_Witness ==
    /\ SubCoded400
    /\ op = "search_users"
    /\ SubCode = 6
    /\ outcome.exc = "RobloxSearchTermTooShort"
    /\ outcome.msg = <<"The keyword is too short.">>

(* C10: search_groups on a 400 response raises the Inappropriate, Empty or *)
(* Length search-term error for sub-code 2, 3 or 4 and                     *)
(* RobloxBadRequestError for every other sub-code; it raises               *)
(* RobloxRateLimitError on 429 and RobloxUnexpectedError on every status   *)
(* other than 200, 400 and 429.                                            *)
C10_SearchGroupsErrors ==
    (Responded /\ op = "search_groups")
    => /\ SubCoded400 =>
            /\ outcome.kind = "raised"
            /\ SubCode = 2 => outcome.exc = "RobloxSearchTermInappropriateError"
            /\ SubCode = 3 => outcome.exc = "RobloxSearchTermEmptyError"
            /\ SubCode = 4 => outcome.exc = "RobloxSearchTermLengthError"
            /\ SubCode \notin {2, 3, 4} => outcome.exc = "RobloxBadRequestError"
       /\ response.status = 429 =>
            outcome.kind = "raised" /\ outcome.exc = "RobloxRateLimitError"
       /\ response.status \notin {200, 400, 429} =>
            outcome.kind = "raised" /\ outcome.exc = "RobloxUnexpectedError"

(* search_groups has raised RobloxUnexpectedError on a 503 response *)
C10_Witness ==
    /\ Responded
    /\ op = "search_groups"
    /\ response.status = 503
    /\ outcome.exc = "RobloxUnexpectedError"

(* The response with the sub-code of its first error entry replaced by c *)
WithSubCode(r, c) ==
    IF IsNone(r.errors) \/ Val(r.errors) = <<>> THEN r
    ELSE [r EXCEPT !.errors = Some(<<[Val(r.errors)[1] EXCEPT !.code = c]>>)]

(* C11: outside the two searches a 400 response never raises a search-term *)
(* error, and the sub-code of the error body has no influence on the kind  *)
(* of the error: the same response with any other sub-code, or with none,  *)
(* ends in the same kind.                                                  *)
C11_SubCodesOnlyInSearch ==
    (Responded /\ response.status = 400 /\ op \notin SearchOps)
    => /\ outcome.kind = "raised"
       /\ ~IsInstance(outcome.exc, "RobloxSearchTermError")
       /\ \A c \in {None} \cup {Some(n) : n \in 0..MaxSubCode} :
            HandleResponse(op, WithSubCode(response, c)).exc = outcome.exc

(* followers has answered a 400 with sub-code 5 by the generic error *)
C11_Witness ==
    /\ SubCoded400
    /\ op = "followers"
    /\ SubCode = 5
    /\ outcome.exc = "RobloxBadRequestError"
    /\ outcome.msg = ServerMessage

(* A 200 response whose body has a list under 'data' *)
Listed200 ==
    /\ Responded
    /\ response.status = 200
    /\ "data" \in DOMAIN response.body
ListedItems == Val(response.body.data)

(* The value of key k in a JSON object: None when the key is absent *)
ValueAt(obj, k) == IF k \in DOMAIN obj THEN obj[k] ELSE None

(* The result holds one item per listed element, in the order of the list, *)
(* each field of the i-th item being the i-th element's value              *)
ItemsMappedInOrder(result, fields) ==
    /\ Len(result) = Len(ListedItems)
    /\ \A i \in 1..Len(ListedItems) :
         \A k \in fields : result[i][k] = ValueAt(ListedItems[i], k)

(* The cursors of the result are those of the body *)
CursorsUnchanged(result) ==
    /\ result.previousPageCursor = ValueAt(response.body, "previousPageCursor")
    /\ result.nextPageCursor = ValueAt(response.body, "nextPageCursor")

(* C12: search_users, search_groups, followers, followings and friends, on *)
(* a 200 response with n items under 'data', return n items, the i-th      *)
(* built from the i-th element with every field equal to the element's     *)
(* value, in server order; the four page-returning operations return the   *)
(* body's previousPageCursor and nextPageCursor unchanged.                 *)
C12_ItemsAndCursorsMapped ==
    (Listed200 /\ op \in SearchOps \cup {"followers", "followings", "friends"})
    => /\ outcome.kind = "returned"
       /\ ItemsMappedInOrder(outcome.val.data, ItemKeys(op))
       /\ op # "friends" => CursorsUnchanged(outcome.val)

(* search_groups has returned two different items in the order of the body *)
(* together with the body's next cursor                                    *)
C12_Witness ==
    /\ Listed200
    /\ op = "search_groups"
    /\ Len(ListedItems) = 2
    /\ ListedItems[1] # ListedItems[2]
    /\ outcome.kind = "returned"
    /\ outcome.val.data[1].hasVerifiedBadge = Some(<<"hasVerifiedBadge", "A">>)
    /\ outcome.val.data[2].hasVerifiedBadge = Some(<<"hasVerifiedBadge", "B">>)
    /\ outcome.val.nextPageCursor = Some(<<"n1">>)

(* The key under which an operation's list arrives *)
ArrayKey == IF op = "roles" THEN "roles" ELSE "data"

(* C13: every list operation (roles, both games, badges, followers,        *)
(* followings, both searches), on a 200 response whose array is empty or   *)
(* whose array key is absent, returns a result with no items and raises no *)
(* error.  Only roles does: the others subscript 'data'.                   *)
C13_EmptyOrAbsentArrayReturnsEmpty ==
    (/\ Responded
     /\ response.status = 200
     /\ op \in PaginatedOps \cup {"roles"}
     /\ \/ ArrayKey \notin DOMAIN response.body
        \/ Val(response.body[ArrayKey]) = <<>>)
    => /\ outcome.kind = "returned"
       /\ outcome.val.data = <<>>

(* C14: get_badge, get_group and get_user, on a 200 response, return a     *)
(* record whose field is None for every documented top-level key missing   *)
(* from the body, 'statistics' and 'awardingUniverse' of a badge included, *)
(* and raise no error.  get_badge subscripts those two keys.               *)
RecordKeys ==
    CASE op = "get_badge" -> BadgeKeys
      [] op = "get_group" -> GroupKeys
      [] OTHER -> UserKeys

C14_MissingKeysBecomeNone ==
    (Responded /\ response.status = 200 /\ op \in {"get_badge", "get_group", "get_user"})
    => /\ outcome.kind = "returned"
       /\ \A k \in RecordKeys \ DOMAIN response.body : outcome.val[k] = None

(* C15: get_group on a 200 response returns a GroupData whose owner, or    *)
(* shout, is None when that key is absent or null, every other field being *)
(* the body's value; a shout without 'poster' gives a ShoutData whose       *)
(* poster is None and whose body, created and updated are the shout's.     *)
(* None of these cases raises.                                             *)
GroupAnswered == Responded /\ response.status = 200 /\ op = "get_group"
ShoutWithoutPoster ==
    /\ ValueAt(response.body, "shout") # None
    /\ Val(response.body.shout) # <<>>
    /\ ValueAt(Val(response.body.shout), "poster") = None

C15_AbsentOwnerOrShoutIsNone ==
    GroupAnswered
    => /\ outcome.kind = "returned"
       /\ outcome.val.type = "GroupData"
       /\ \A k \in {"owner", "shout"} :
            ValueAt(response.body, k) = None => outcome.val[k] = None
       /\ \A k \in GroupKeys \ {"owner", "shout"} :
            outcome.val[k] = ValueAt(response.body, k)
       /\ ShoutWithoutPoster =>
            /\ outcome.val.shout # None
            /\ Val(outcome.val.shout).type = "ShoutData"
            /\ Val(outcome.val.shout).poster = None
            /\ \A k \in {"body", "created", "updated"} :
                 Val(outcome.val.shout)[k] = ValueAt(Val(response.body.shout), k)

(* get_group has returned a group without owner whose shout has no poster *)
C15_Witness ==
    /\ GroupAnswered
    /\ "owner" \notin DOMAIN response.body
    /\ ShoutWithoutPoster
    /\ "poster" \notin DOMAIN Val(response.body.shout)
    /\ outcome.kind = "returned"
    /\ outcome.val.owner = None
    /\ Val(outcome.val.shout).poster = None
    /\ Val(outcome.val.shout).body = Some(<<"body", "A">>)
    /\ outcome.val.name = Some(<<"name", "A">>)

(* C16: both games operations, on a 200 response with n game objects under *)
(* 'data', return a GamesResultData of n GameData items in server order,   *)
(* the i-th with the i-th element's id, name, description, created,        *)
(* updated and placeVisits, and with the body's cursors.  Both raise       *)
(* AttributeError instead: they call .get on the list.                     *)
C16_GamesMapped ==
    (Listed200 /\ op \in {"GroupData.games", "UserData.games"})
    => /\ outcome.kind = "returned"
       /\ outcome.val.type = "GamesResultData"
       /\ ItemsMappedInOrder(outcome.val.data, {"id", "name", "description", "created",
                                                "updated", "placeVisits"})
       /\ CursorsUnchanged(outcome.val)

C19_EveryRequestAcceptsJson ==
    \A i \in 1..Len(requests) : <<"accept", "application/json">> \in requests[i].headers

(* The statuses for which an operation raises an error kind of their own *)
DedicatedStatuses ==
    IF op = "get_badge" THEN {404} ELSE {400, 401, 404, 429, 500}

(* C20: in get_badge, get_group, get_user, roles and avatar a response     *)
(* status that is not 200 and has no error kind of its own in that         *)
(* operation raises RobloxUnexpectedError with the status code in its      *)
(* message.                                                                *)
C20_UnmappedStatusIsUnexpected ==
    (/\ Responded
     /\ op \in {"get_badge", "get_group", "get_user", "roles", "avatar"}
     /\ response.status \notin {200} \cup DedicatedStatuses)
    => /\ outcome.kind = "raised"
       /\ outcome.exc = "RobloxUnexpectedError"
       /\ Contains(outcome.msg, IntToStr(response.status))

(* get_badge, which knows 404 only, has answered a 400 with the unexpected *)
(* status error naming 400                                                 *)
C20_Witness ==
    /\ Responded
    /\ op = "get_badge"
    /\ response.status = 400
    /\ outcome.exc = "RobloxUnexpectedError"
    /\ outcome.msg = <<"Unexpected HTTP status code: ">> \o IntToStr(400)

(* C21: get_badge raises RobloxNotFoundError on status 404 and             *)
(* RobloxUnexpectedError on every other status that is not 200, the        *)
(* statuses 400, 401, 429 and 500 included; no other error of the library  *)
(* comes out of it.                                                        *)
C21_GetBadgeKnowsOnly404 ==
    (Responded /\ op = "get_badge")
    => /\ response.status = 404 =>
            outcome.kind = "raised" /\ outcome.exc = "RobloxNotFoundError"
       /\ response.status \notin {200, 404} =>
            outcome.kind = "raised" /\ outcome.exc = "RobloxUnexpectedError"
       /\ (outcome.kind = "raised" /\ IsInstance(outcome.exc, "RobloxApiError"))
            => outcome.exc \in {"RobloxNotFoundError", "RobloxUnexpectedError"}

(* get_badge has answered a 429 with the unexpected status error *)
C21_Witness ==
    /\ Responded
    /\ op = "get_badge"
    /\ response.status = 429
    /\ outcome.exc = "RobloxUnexpectedError"

(* C22: the library keeps nothing between calls.  Between two calls every  *)
(* local of the last one is gone; a call made by a caller sends the        *)
(* request, or raises the pre-flight error, that its arguments alone       *)
(* determine; and its outcome is the one its operation and the response    *)
(* alone determine: however the previous call ended (prior), the same      *)
(* arguments and the same response give the same outcome.                  *)
C22_OutcomeDependsOnCallAlone ==
    /\ pc = "idle" =>
         /\ op = "none" /\ args = DefaultArgs /\ requests = <<>>
         /\ response = NoResponse /\ outcome = NoOutcome
    /\ (Invoked /\ loading = "none") =>
         IF BuildRequest(op, args).ok
         THEN requests = <<[method |-> "GET", url |-> BuildRequest(op, args).url,
                            headers |-> RequestHeaders(op)]>>
         ELSE /\ requests = <<>>
              /\ pc = "done"
              /\ outcome = Raise(BuildRequest(op, args).exc, BuildRequest(op, args).msg)
    /\ Responded => outcome = HandleResponse(op, response)

(* After a call that failed, get_user has returned a record on a 200 *)
C22_Witness ==
    /\ prior = "raised"
    /\ loading = "none"
    /\ Responded
    /\ op = "get_user"
    /\ response.status = 200
    /\ outcome.kind = "returned"
    /\ outcome.val.name = Some(<<"name", "A">>)

(* The invocation sent its request and ended without any response *)
TransportFailed == pc = "done" /\ requests # <<>> /\ response.status = 0

(* C23: when the transport fails during an operation, so that no status is *)
(* received, the operation ends in an error that is none of the library's  *)
(* HTTP-status kinds; it returns no record and has issued its one request  *)
(* only.                                                                   *)
C23_TransportFailureIsNoStatusError ==
    TransportFailed
    => /\ outcome.kind = "raised"
       /\ ~IsInstance(outcome.exc, "RobloxApiError")
       /\ Len(requests) = 1

(* get_user has ended in the timeout of its request *)
C23_Witness ==
    /\ TransportFailed
    /\ op = "get_user"
    /\ loading = "none"
    /\ outcome.kind = "raised"
    /\ outcome.exc = "Timeout"

(* C24: for followers, followings, friends, badges, both games and both   *)
(* searches every 400 response raises an error of the BadRequest family    *)
(* (RobloxBadRequestError, or a search-term kind in a search), whatever    *)
(* its body: no 'errors' list, an empty one, or an entry without 'message' *)
(* or 'code'.  The subscripts on the body raise KeyError or IndexError.    *)
C24_Every400IsBadRequest ==
    (Responded /\ response.status = 400 /\ op \in PaginatedOps \cup {"friends"})
    => /\ outcome.kind = "raised"
       /\ \/ IsInstance(outcome.exc, "RobloxBadRequestError")
          \/ op \in SearchOps /\ IsInstance(outcome.exc, "RobloxSearchTermError")

(* v is None, or a sub-record of the given type with all its fields *)
NoneOrComplete(v, type, fields) ==
    v = None \/ (Val(v).type = type /\ DOMAIN Val(v) = fields \cup {"type"})

(* The sub-object under key k of a JSON object is absent, null or empty *)
NothingAt(obj, k) == ValueAt(obj, k) \in {None, Some(<<>>)}

(* C25: in every record get_group and get_badge return, each optional     *)
(* sub-object (owner, shout, the shout's poster, statistics,               *)
(* awardingUniverse) is None or a sub-record with every declared field     *)
(* set, possibly to None; it is None when the JSON key is absent, null or  *)
(* empty.                                                                  *)
C25_SubObjectsNoneOrComplete ==
    (Responded /\ response.status = 200 /\ outcome.kind = "returned")
    => /\ op = "get_group" =>
            /\ NoneOrComplete(outcome.val.owner, "OwnerData", OwnerKeys)
            /\ NoneOrComplete(outcome.val.shout, "ShoutData", ShoutKeys)
            /\ NothingAt(response.body, "owner") => outcome.val.owner = None
            /\ NothingAt(response.body, "shout") => outcome.val.shout = None
            /\ outcome.val.shout # None =>
                 /\ NoneOrComplete(Val(outcome.val.shout).poster, "PosterData", OwnerKeys)
                 /\ NothingAt(Val(response.body.shout), "poster")
                      => Val(outcome.val.shout).poster = None
       /\ op = "get_badge" =>
            /\ NoneOrComplete(outcome.val.statistics, "BadgeStatistics", StatisticsKeys)
            /\ NoneOrComplete(outcome.val.awardingUniverse, "BadgeAwardingUniverse",
                              AwardingUniverseKeys)
            /\ NothingAt(response.body, "statistics") => outcome.val.statistics = None
            /\ NothingAt(response.body, "awardingUniverse")
                 => outcome.val.awardingUniverse = None

(* get_group has returned an owner built from an object holding userId     *)
(* only, its other fields None, and no shout for the empty shout object    *)
C25_Witness ==
    /\ Responded
    /\ op = "get_group"
    /\ outcome.kind = "returned"
    /\ ValueAt(response.body, "owner") = Some([userId |-> Some(<<"userId", "B">>)])
    /\ ValueAt(response.body, "shout") = Some(<<>>)
    /\ outcome.val.owner # None
    /\ Val(outcome.val.owner).userId = Some(<<"userId", "B">>)
    /\ Val(outcome.val.owner).username = None
    /\ outcome.val.shout = None

(* A pagination argument that is false in Python, and one that passes its *)
(* check because it is false or valid                                      *)
FalsyLimit == IsNone(args.limit) \/ Val(args.limit) = 0
FalsySortOrder == IsNone(args.sortOrder) \/ Val(args.sortOrder) = ""
FalsyCursor == IsNone(args.cursor) \/ Val(args.cursor) = <<>>
LimitPasses == FalsyLimit \/ Val(args.limit) \in {10, 25, 50, 100}
SortOrderPasses == op \notin SortedOps \/ FalsySortOrder \/ Val(args.sortOrder) \in {"Asc", "Desc"}

(* The request was sent and its URL names no parameter p *)
SentWithout(p) ==
    /\ Len(requests) = 1
    /\ ~RejectedPreFlight
    /\ ~Contains(requests[1].url, <<p, "=">>)

C27_UntestedStatusReturnsNone ==
    (/\ Responded
     /\ op \in (PaginatedOps \ {"search_groups"}) \cup {"friends"}
     /\ response.status \notin {200, 400, 429})
    => /\ outcome.kind = "returned"
       /\ outcome = ReturnNone

(* followers has returned None on a 404 response *)
C27_Witness ==
    /\ Responded
    /\ op = "followers"
    /\ response.status = 404
    /\ outcome.kind = "returned"
    /\ outcome.val.type = "NoneType"

(* C28: loading the Users module issues no HTTP request and raises no      *)
(* error.  The last statement of the module calls get_user(123).avatar().  *)
C28_LoadingUsersIsSilent ==
    loading # "none" => (requests = <<>> /\ outcome.kind # "raised")

SearchTermKinds ==
    {"RobloxSearchTermInappropriateError", "RobloxSearchTermEmptyError",
     "RobloxSearchTermLengthError", "RobloxSearchTermFilteredError",
     "RobloxSearchTermTooShort"}

(* The errors Python raises on the subscripts of a body, not the library *)
SubscriptErrors == {"KeyError", "IndexError"}

(* C29: every error the library raises itself, for a failed pre-flight     *)
(* check or for an HTTP status, is a RobloxApiError; the five search-term  *)
(* kinds are RobloxSearchTermError and no RobloxBadRequestError, so a      *)
(* handler of RobloxBadRequestError alone lets a search-term error raised  *)
(* for a 400 through.                                                      *)
C29_LibraryErrorsAreRobloxApiErrors ==
    /\ RejectedPreFlight => IsInstance(outcome.exc, "RobloxApiError")
    /\ (/\ Responded
        /\ response.status # 200
        /\ outcome.kind = "raised"
        /\ outcome.exc \notin SubscriptErrors)
       => IsInstance(outcome.exc, "RobloxApiError")
    /\ (pc = "done" /\ outcome.kind = "raised" /\ outcome.exc \in SearchTermKinds)
       => /\ response.status = 400
          /\ IsInstance(outcome.exc, "RobloxApiError")
          /\ IsInstance(outcome.exc, "RobloxSearchTermError")
          /\ ~IsInstance(outcome.exc, "RobloxBadRequestError")

(* search_groups has raised the Empty search-term error on a 400 *)
C29_Witness ==
    /\ SubCoded400
    /\ op = "search_groups"
    /\ SubCode = 3
    /\ outcome.exc = "RobloxSearchTermEmptyError"
    /\ ~IsInstance(outcome.exc, "RobloxBadRequestError")

====
